---- MODULE Spec2Model ----
(***************************************************************************)
(* Token codec, structural validator, prior masks and constant bridge of   *)
(* dsr/task/regression/gp_regression.py.                                   *)
(*                                                                         *)
(* Python lists, arrays and token ids are 0-based in the source; the       *)
(* sequences below are 1-based, token ids stay 0-based.  A Python dict is  *)
(* a sequence of <<key, value>> pairs in insertion order.  A float is a    *)
(* record [whole, half] standing for whole + 0.5 * half.                   *)
(***************************************************************************)
EXTENDS Integers, Sequences, FiniteSets, TLC

VARIABLES
    INVERSE_TOKENS,   \* module global dict, built by the three statements at import
    import_pc,        \* position of the module's import: "trig", "reverse", "ready"
    names,            \* [node.name for node in ind]: the name list under validation
    called,           \* the validator function called last ("none" before any call)
    returned,         \* what that call returned
    sampled,          \* the tokens a sampler has chosen so far, one per prior row
    prior_cfg,        \* [max_len, min_len, max_depth] of the run
    sample_pc,        \* "sampling" until the sequence is handed over, then "done"
    finished,         \* the completed sequence handed to the validator
    raw,              \* a raw token sequence, as a sampler or an individual gives it
    completed,        \* what the last call of complete returned, with its max_length
    recompleted,      \* what complete returned on that result again
    pset,             \* .value of the shared terminals primitive_set.mapping[...]
    individual,       \* the gp.PrimitiveTree under work: a list of nodes
    original,         \* node-by-node copy of the tree taken before it was encoded
    encoded,          \* what DEAP_to_tokens returned, with its tokens_size
    injected,         \* consts of the last call of _set_const_individuals
    obj_result,       \* outcome of the last call of the objective obj
    codec_pc,         \* stage of the candidate: "raw", "completed", "tree", ...
    population,       \* the population: a list of references to individuals
    heap,             \* the node names of each referenced individual
    wrapped           \* the last call of a wrapped operator: its inputs and outputs

importVars == <<INVERSE_TOKENS, import_pc>>

validatorVars == <<names, called, returned>>

priorVars == <<sampled, prior_cfg, sample_pc, finished>>

codecVars == <<raw, completed, recompleted, pset, individual, original, encoded,
               injected, obj_result, codec_pc>>

wrapperVars == <<population, heap, wrapped>>

vars == <<importVars, validatorVars, priorVars, codecVars, wrapperVars>>

(***************************************************************************)
(* Bounds of the model.                                                    *)
(***************************************************************************)
MaxNames == 5         \* longest name list drawn as an input of the validator

MaxExpLength == 5     \* max_exp_length: rows of the prior matrix, tokens per sample

MaxRaw == 4           \* longest raw token sequence drawn as an input of the codec

(***************************************************************************)
(* Python dict helpers.                                                    *)
(***************************************************************************)
RECURSIVE DictIndex(_, _, _)
DictIndex(d, k, i) ==
    IF i > Len(d) THEN 0
    ELSE IF d[i][1] = k THEN i
    ELSE DictIndex(d, k, i + 1)

DictHas(d, k) == DictIndex(d, k, 1) # 0

DictGet(d, k) == d[DictIndex(d, k, 1)][2]

\* d[k] = v: an existing key keeps its position, a new key is appended.
DictSet(d, k, v) ==
    IF DictHas(d, k)
    THEN [d EXCEPT ![DictIndex(d, k, 1)] = <<k, v>>]
    ELSE Append(d, <<k, v>>)

\* d.update(items): the items are stored one after the other.
RECURSIVE DictUpdate(_, _)
DictUpdate(d, items) ==
    IF items = <<>> THEN d
    ELSE DictUpdate(DictSet(d, items[1][1], items[1][2]), Tail(items))

(***************************************************************************)
(* Module constants.                                                       *)
(***************************************************************************)
TRIG_TOKENS == <<"sin", "cos", "tan", "csc", "sec", "cot">>

InTrigTokens(name) == \E i \in 1..Len(TRIG_TOKENS) : TRIG_TOKENS[i] = name

\* The dict literal of the module.
InverseLiteral ==
    << <<"exp", "log">>, <<"neg", "neg">>, <<"inv", "inv">>, <<"sqrt", "n2">> >>

\* {t : "arc" + t for t in TRIG_TOKENS}
ArcItems == [i \in 1..Len(TRIG_TOKENS) |-> <<TRIG_TOKENS[i], "arc" \o TRIG_TOKENS[i]>>]

\* {v : k for k, v in d.items()}: a dict comprehension, built by storing each
\* reversed item in turn into an empty dict.
ReverseItems_NoSwap(d) == DictUpdate(<<>>, d)

ReverseItems(d) == DictUpdate(<<>>, [i \in 1..Len(d) |-> <<d[i][2], d[i][1]>>])

\* INVERSE_TOKENS once the module is imported.
LoadedInverseTokens ==
    LET withTrig == DictUpdate(InverseLiteral, ArcItems)
    IN  DictUpdate(withTrig, ReverseItems(withTrig))

\* Names of the operators of function_map by arity (dsr.functions).
UNARY_TOKENS == {"sin", "cos", "tan", "exp", "log", "sqrt", "n2", "neg", "abs", "inv"}

BINARY_TOKENS == {"add", "sub", "mul", "div"}

\* node.arity of a DEAP node of the given name.
NameArity(name) ==
    IF name \in BINARY_TOKENS THEN 2
    ELSE IF name \in UNARY_TOKENS THEN 1
    ELSE 0

(***************************************************************************)
(* check_inv: scan of the consecutive pairs, with an early return.         *)
(***************************************************************************)
\* names[:-1]
AllButLast(s) == IF Len(s) = 0 THEN <<>> ELSE SubSeq(s, 1, Len(s) - 1)

AllButLastTwo(s) == IF Len(s) <= 1 THEN <<>> ELSE SubSeq(s, 1, Len(s) - 2)

\* The sequence enumerate() runs over in check_inv.
ScannedNames(s) == AllButLast(s)

RECURSIVE check_inv_loop(_, _, _, _)
check_inv_loop(ns, scanned, inv, i) ==
    IF i > Len(scanned) THEN FALSE
    ELSE IF DictHas(inv, scanned[i]) /\ ns[i + 1] = DictGet(inv, scanned[i]) THEN TRUE
    ELSE check_inv_loop(ns, scanned, inv, i + 1)

check_inv(ns, inv) == check_inv_loop(ns, ScannedNames(ns), inv, 1)

(***************************************************************************)
(* check_trig: one pass with the flag trig_descendant and the counter      *)
(* trig_dangling (unassigned until the first trig token: modelled as 0,    *)
(* never read before it is set).                                           *)
(***************************************************************************)
TrigDanglingAfter_NoClose(name, td) ==
    IF name \in BINARY_TOKENS THEN td + 1 ELSE td

\* The counter after a non-trig token seen beneath a trig token.
TrigDanglingAfter(name, td) ==
    IF name \in BINARY_TOKENS THEN td + 1
    ELSE IF name \notin UNARY_TOKENS THEN td - 1
    ELSE td

RECURSIVE check_trig_loop(_, _, _, _)
check_trig_loop(ns, i, desc, td) ==
    IF i > Len(ns) THEN FALSE
    ELSE IF InTrigTokens(ns[i])
         THEN IF desc THEN TRUE ELSE check_trig_loop(ns, i + 1, TRUE, 1)
    ELSE IF desc
         THEN LET td2 == TrigDanglingAfter(ns[i], td)
              IN  check_trig_loop(ns, i + 1, td2 # 0, td2)
    ELSE check_trig_loop(ns, i + 1, desc, td)

check_trig(ns) == check_trig_loop(ns, 1, FALSE, 0)

(***************************************************************************)
(* The constraint chain of checkConstraint's wrapper, for one individual   *)
(* returned by the wrapped operator.                                       *)
(***************************************************************************)
\* [x] * n
RECURSIVE Repeat(_, _)
Repeat(x, n) == IF n <= 0 THEN <<>> ELSE <<x>> \o Repeat(x, n - 1)

\* gp.PrimitiveTree.height: depth-first walk with a stack of pending depths.
RECURSIVE height_loop(_, _, _, _)
height_loop(ns, i, stack, max_depth) ==
    IF i > Len(ns) THEN max_depth
    ELSE LET depth == stack[Len(stack)]
             rest  == SubSeq(stack, 1, Len(stack) - 1)
         IN  height_loop(ns, i + 1,
                         rest \o Repeat(depth + 1, NameArity(ns[i])),
                         IF depth > max_depth THEN depth ELSE max_depth)

height(ns) == height_loop(ns, 1, <<0>>, 0)

constraint_SkipsInverse(ns, lim, inv) ==
    IF Len(ns) > lim.max_length THEN "max_length"
    ELSE IF Len(ns) < lim.min_length THEN "min_length"
    ELSE IF height(ns) > lim.max_depth THEN "max_depth"
    ELSE IF check_trig(ns) THEN "trig"
    ELSE "kept"

\* The branch of the if/elif chain taken; every branch but "kept" replaces the
\* individual by random.choice(keep_inds).
constraint(ns, lim, inv) ==
    IF Len(ns) > lim.max_length THEN "max_length"
    ELSE IF Len(ns) < lim.min_length THEN "min_length"
    ELSE IF height(ns) > lim.max_depth THEN "max_depth"
    ELSE IF check_inv(ns, inv) THEN "inverse"
    ELSE IF check_trig(ns) THEN "trig"
    ELSE "kept"

(***************************************************************************)
(* Arity balance of a name list: dangling = 1 + sum(arity - 1).            *)
(***************************************************************************)
RECURSIVE NameBalance(_, _)
NameBalance(ns, k) ==
    IF k = 0 THEN 1 ELSE NameBalance(ns, k - 1) + NameArity(ns[k]) - 1

\* A complete pre-order sequence: the balance reaches 0 at the last position
\* and nowhere before.
IsCompleteNames(ns) ==
    /\ Len(ns) > 0
    /\ NameBalance(ns, Len(ns)) = 0
    /\ \A k \in 1..(Len(ns) - 1) : NameBalance(ns, k) > 0

(***************************************************************************)
(* Specification of the validator: the module is imported, then the        *)
(* checks are called on a name list.                                       *)
(***************************************************************************)
NameSet == {"add", "sin", "log", "exp", "ARG0", "mutable_const"}

RECURSIVE SeqsUpTo(_, _)
SeqsUpTo(S, n) ==
    IF n = 0 THEN {<<>>}
    ELSE LET shorter == SeqsUpTo(S, n - 1)
         IN  shorter \cup {Append(s, x) : s \in {t \in shorter : Len(t) = n - 1}, x \in S}

\* [add, sin, x1, log, exp, x1] and [add, exp, log, x1] of the scenarios.
ScenarioValid == <<"add", "sin", "ARG0", "log", "exp", "ARG0">>

ScenarioInverse == <<"add", "exp", "log", "ARG0">>

NameLists == SeqsUpTo(NameSet, MaxNames) \cup {ScenarioValid, ScenarioInverse}

LimitsSet ==
    {[max_length |-> ml, min_length |-> 2, max_depth |-> md] : ml \in {4, 6}, md \in {2, 17}}

\* No candidate is in the codec.
CodecIdle ==
    /\ raw = <<>>
    /\ completed = "none"
    /\ recompleted = "none"
    /\ pset = "none"
    /\ individual = <<>>
    /\ original = <<>>
    /\ encoded = "none"
    /\ injected = <<>>
    /\ obj_result = "none"
    /\ codec_pc = "idle"

\* No operator is wrapped and no population is kept.
WrapperIdle ==
    /\ population = <<>>
    /\ heap = <<>>
    /\ wrapped = [op |-> "none"]

\* No sampler runs.
PriorIdle ==
    /\ sampled = <<>>
    /\ prior_cfg = "none"
    /\ sample_pc = "idle"
    /\ finished = "none"

InitValidator ==
    /\ INVERSE_TOKENS = InverseLiteral
    /\ import_pc = "trig"
    /\ names \in NameLists
    /\ called = "none"
    /\ returned = "none"
    /\ PriorIdle
    /\ CodecIdle
    /\ WrapperIdle

\* INVERSE_TOKENS.update({t : "arc" + t for t in TRIG_TOKENS})
ImportTrig ==
    /\ import_pc = "trig"
    /\ INVERSE_TOKENS' = DictUpdate(INVERSE_TOKENS, ArcItems)
    /\ import_pc' = "reverse"
    /\ UNCHANGED <<wrapperVars, validatorVars, priorVars, codecVars>>

\* INVERSE_TOKENS.update({v : k for k, v in INVERSE_TOKENS.items()})
ImportReverse ==
    /\ import_pc = "reverse"
    /\ INVERSE_TOKENS' = DictUpdate(INVERSE_TOKENS, ReverseItems(INVERSE_TOKENS))
    /\ import_pc' = "ready"
    /\ UNCHANGED <<wrapperVars, validatorVars, priorVars, codecVars>>

Call_check_inv ==
    /\ import_pc = "ready"
    /\ called' = "check_inv"
    /\ returned' = check_inv(names, INVERSE_TOKENS)
    /\ UNCHANGED <<wrapperVars, importVars, names, priorVars, codecVars>>

Call_check_trig ==
    /\ import_pc = "ready"
    /\ called' = "check_trig"
    /\ returned' = check_trig(names)
    /\ UNCHANGED <<wrapperVars, importVars, names, priorVars, codecVars>>

\* The wrapper's chain on an individual (a well-formed tree) an operator returned.
Call_constraint ==
    /\ import_pc = "ready"
    /\ IsCompleteNames(names)
    /\ \E lim \in LimitsSet :
          /\ called' = "constraint"
          /\ returned' = [limits |-> lim, branch |-> constraint(names, lim, INVERSE_TOKENS)]
    /\ UNCHANGED <<wrapperVars, importVars, names, priorVars, codecVars>>

NextValidator ==
    \/ ImportTrig
    \/ ImportReverse
    \/ Call_check_inv
    \/ Call_check_trig
    \/ Call_constraint

SpecValidator == InitValidator /\ [][NextValidator]_vars

(***************************************************************************)
(* Properties of the validator.                                            *)
(***************************************************************************)
\* t has a registered inverse, and nxt is that inverse.
IsInverseOf(inv, t, nxt) == DictHas(inv, t) /\ DictGet(inv, t) = nxt

\* Last position of the subtree rooted at position i of a complete sequence.
SubtreeEnd(ns, i) ==
    CHOOSE j \in i..Len(ns) :
        /\ NameBalance(ns, j) = NameBalance(ns, i - 1) - 1
        /\ \A k \in i..(j - 1) : NameBalance(ns, k) >= NameBalance(ns, i - 1)

\* Some trig token is a proper ancestor of another trig token.
NestedTrig(ns) ==
    \E i \in 1..Len(ns) : \E j \in (i + 1)..Len(ns) :
        /\ InTrigTokens(ns[i])
        /\ InTrigTokens(ns[j])
        /\ j <= SubtreeEnd(ns, i)

SiblingTrig == <<"add", "sin", "ARG0", "sin", "ARG0">>

NestedSin == <<"sin", "sin", "ARG0">>

\* The limits admit the individual: neither length bound nor the depth bound rejects it.
Admits(lim, ns) ==
    /\ lim.min_length <= Len(ns)
    /\ Len(ns) <= lim.max_length
    /\ height(ns) <= lim.max_depth

\* C6: once the module is imported, every key t of INVERSE_TOKENS with inverse u
\* has u as a key too, and the inverse of u is t.
C6_InverseSymmetry ==
    import_pc = "ready" =>
        \A i \in 1..Len(INVERSE_TOKENS) :
            IsInverseOf(INVERSE_TOKENS, INVERSE_TOKENS[i][2], INVERSE_TOKENS[i][1])

C6_Witness ==
    /\ import_pc = "ready"
    /\ IsInverseOf(INVERSE_TOKENS, "exp", "log")
    /\ IsInverseOf(INVERSE_TOKENS, "arcsin", "sin")

\* C8 as stated: [add, sin, x1, log, exp, x1] has expression length 6 and, under
\* limits that admit it, the validator keeps it.
C8_ScenarioAccepted ==
    names = ScenarioValid =>
        /\ IsCompleteNames(names) /\ Len(names) = 6
        /\ (called = "constraint" /\ Admits(returned.limits, names)) =>
               returned.branch = "kept"

\* C8 amended: [add, sin, x1, log, exp, x1] has expression length 6 and passes the
\* length, depth and nested-trig checks, but check_inv returns True for it (log is
\* immediately followed by exp, its registered inverse), so under limits that
\* admit it the validator rejects it on the inverse-adjacency branch.
C8_ScenarioRejectedByInverse ==
    names = ScenarioValid =>
        /\ IsCompleteNames(names) /\ Len(names) = 6
        /\ called = "check_inv" => returned = TRUE
        /\ called = "check_trig" => returned = FALSE
        /\ (called = "constraint" /\ Admits(returned.limits, names)) =>
               returned.branch = "inverse"

C8_Witness ==
    /\ names = ScenarioValid
    /\ called = "constraint"
    /\ Admits(returned.limits, names)
    /\ returned.branch = "inverse"

\* C9: check_inv returns True exactly when some name is immediately followed by
\* its registered inverse (False for the empty and the one-element list), and
\* [add, exp, log, x1] is rejected.
C9_CheckInvExact ==
    called = "check_inv" =>
        /\ returned = (\E i \in 1..(Len(names) - 1) :
                            IsInverseOf(INVERSE_TOKENS, names[i], names[i + 1]))
        /\ Len(names) <= 1 => returned = FALSE
        /\ names = ScenarioInverse => returned = TRUE

C9_Witness ==
    /\ called = "check_inv"
    /\ names = ScenarioInverse
    /\ returned = TRUE

\* C10: on a complete pre-order sequence check_trig returns True exactly when a
\* trig token is a proper ancestor of another trig token; trig tokens in sibling
\* subtrees are not reported, and [sin, sin, x1] is rejected.
C10_CheckTrigExact ==
    (called = "check_trig" /\ IsCompleteNames(names)) =>
        /\ returned = NestedTrig(names)
        /\ names = SiblingTrig => returned = FALSE
        /\ names = NestedSin => returned = TRUE

C10_Witness ==
    /\ called = "check_trig"
    /\ names = SiblingTrig
    /\ returned = FALSE

(***************************************************************************)
(* Program.library: the token library, indexed by token id from 0.         *)
(* Input variables come first (DEAP_to_tokens stores the argument index    *)
(* of "ARG<i>" as the token id), then the operators, the "const"           *)
(* placeholder and two hard-coded float constants.                         *)
(***************************************************************************)
Float(w, h) == [whole |-> w, half |-> h]

Library ==
    << [kind |-> "input",    name |-> "x1",    arity |-> 0, value |-> 0],
       [kind |-> "function", name |-> "add",   arity |-> 2, value |-> 0],
       [kind |-> "function", name |-> "sin",   arity |-> 1, value |-> 0],
       [kind |-> "function", name |-> "log",   arity |-> 1, value |-> 0],
       [kind |-> "function", name |-> "exp",   arity |-> 1, value |-> 0],
       [kind |-> "const",    name |-> "const", arity |-> 0, value |-> 0],
       [kind |-> "float",    name |-> "2.5",   arity |-> 0, value |-> Float(2, TRUE)],
       [kind |-> "float",    name |-> "3.5",   arity |-> 0, value |-> Float(3, TRUE)] >>

\* Program.library[t]
LibraryAt(t) == Library[t + 1]

\* Program.library.L
LibraryL == Len(Library)

TokenIds == 0..(LibraryL - 1)

\* Program.library.arities[t]
arities(t) == LibraryAt(t).arity

terminal_tokens == {t \in TokenIds : arities(t) = 0}

unary_tokens == {t \in TokenIds : arities(t) = 1}

binary_tokens == {t \in TokenIds : arities(t) = 2}

trig_tokens == {t \in TokenIds : InTrigTokens(LibraryAt(t).name)}

\* Program.library.const_token
const_token == CHOOSE t \in TokenIds : LibraryAt(t).kind = "const"

\* Program.library.inverse_tokens: token id -> token id of its inverse, for the
\* tokens of the library whose inverse is in the library too.
HasInverseToken(t) ==
    /\ LibraryAt(t).kind = "function"
    /\ DictHas(LoadedInverseTokens, LibraryAt(t).name)
    /\ \E u \in TokenIds : /\ LibraryAt(u).kind = "function"
                           /\ LibraryAt(u).name = DictGet(LoadedInverseTokens, LibraryAt(t).name)

InverseTokenOf(t) ==
    CHOOSE u \in TokenIds : /\ LibraryAt(u).kind = "function"
                            /\ LibraryAt(u).name = DictGet(LoadedInverseTokens, LibraryAt(t).name)

\* dangling after the first k tokens: 1 + cumsum(arities - 1).
RECURSIVE Dangling(_, _)
Dangling(tokens, k) ==
    IF k = 0 THEN 1 ELSE Dangling(tokens, k - 1) + arities(tokens[k]) - 1

Min(a, b) == IF a <= b THEN a ELSE b

\* min of a non-empty set of integers
SetMin(S) == CHOOSE x \in S : \A y \in S : x <= y

(***************************************************************************)
(* complete / _finish_tokens: truncate a sequence that completes early,    *)
(* extend one that does not with the first input variable.                 *)
(***************************************************************************)
DefaultTerminal == CHOOSE t \in TokenIds : LibraryAt(t).kind = "input"

complete_NoPadding(sequence, max_length) ==
    LET capped == SubSeq(sequence, 1, Min(Len(sequence), max_length))
        zeros  == {k \in 1..Len(capped) : Dangling(capped, k) = 0}
    IN  IF zeros # {}
        THEN [sequence |-> SubSeq(capped, 1, SetMin(zeros)), length |-> SetMin(zeros)]
        ELSE [sequence |-> capped, length |-> Len(capped)]

complete_TruncatesShort(sequence, max_length) ==
    LET capped == SubSeq(sequence, 1, Min(Len(sequence), max_length))
        zeros  == {k \in 1..Len(capped) : Dangling(capped, k) = 0}
        open   == Dangling(capped, Len(capped))
    IN  IF zeros # {}
        THEN [sequence |-> SubSeq(capped, 1, SetMin(zeros) - 1), length |-> SetMin(zeros) - 1]
        ELSE [sequence |-> capped \o Repeat(DefaultTerminal, open),
              length   |-> Len(capped) + open]

complete(sequence, max_length) ==
    LET capped == SubSeq(sequence, 1, Min(Len(sequence), max_length))
        zeros  == {k \in 1..Len(capped) : Dangling(capped, k) = 0}
        open   == Dangling(capped, Len(capped))
    IN  IF zeros # {}
        THEN [sequence |-> SubSeq(capped, 1, SetMin(zeros)), length |-> SetMin(zeros)]
        ELSE [sequence |-> capped \o Repeat(DefaultTerminal, open),
              length   |-> Len(capped) + open]

\* _finish_tokens(tokens): the array is its own cap.
_finish_tokens(tokens) == complete(tokens, Len(tokens)).sequence

(***************************************************************************)
(* generate_priors: priors[r] is the set of token ids with -inf in row r.  *)
(***************************************************************************)
\* trig_descendant and trig_dangling after token t (lines 337-347).
PriorTrigAfter_NoClose(st, t) ==
    IF t \in trig_tokens
    THEN [desc |-> TRUE, td |-> 1]
    ELSE [desc |-> st.trig_descendant, td |-> st.trig_dangling]

\* trig_descendant and trig_dangling after token t (lines 337-347).
PriorTrigAfter(st, t) ==
    IF t \in trig_tokens
    THEN [desc |-> TRUE, td |-> 1]
    ELSE IF st.trig_descendant
         THEN LET td2 == IF t \in binary_tokens THEN st.trig_dangling + 1
                         ELSE IF t \notin unary_tokens THEN st.trig_dangling - 1
                         ELSE st.trig_dangling
              IN  [desc |-> td2 # 0, td |-> td2]
    ELSE [desc |-> st.trig_descendant, td |-> st.trig_dangling]

TrigMask(desc) == IF desc THEN trig_tokens ELSE {}

InverseMask(t) == IF HasInverseToken(t) THEN {InverseTokenOf(t)} ELSE {}

MinLengthMask_OneShort(i, dangling, min_len) ==
    IF (i + 2) < min_len - 1 /\ dangling = 1 THEN terminal_tokens ELSE {}

\* Constrain terminals (lines 371-373).
MinLengthMask(i, dangling, min_len) ==
    IF (i + 2) < min_len /\ dangling = 1 THEN terminal_tokens ELSE {}

\* Lines 375-381.
LateLengthMask(i, dangling, max_len) ==
    IF (i + 2) >= max_len \div 2
    THEN LET remaining == max_len - (i + 1)
         IN  IF dangling >= remaining - 1 THEN binary_tokens
             ELSE IF dangling = remaining THEN unary_tokens
             ELSE {}
    ELSE {}

\* One iteration of the loop, for tokens[i] = t (i counted from 0).
PriorStep(st, i, t, n, max_len, min_len) ==
    LET dangling == st.dangling + arities(t) - 1
    IN  IF i < n - 1
        THEN LET trig == PriorTrigAfter(st, t)
                 mask == TrigMask(trig.desc) \cup InverseMask(t)
                            \cup MinLengthMask(i, dangling, min_len)
                            \cup LateLengthMask(i, dangling, max_len)
             IN  [priors          |-> [st.priors EXCEPT ![i + 1] = @ \cup mask],
                  dangling        |-> dangling,
                  trig_descendant |-> trig.desc,
                  trig_dangling   |-> trig.td]
        ELSE [st EXCEPT !.dangling = dangling]

RECURSIVE generate_priors_loop(_, _, _, _, _)
generate_priors_loop(st, i, tokens, max_len, min_len) ==
    IF i >= Len(tokens) THEN st
    ELSE generate_priors_loop(
             PriorStep(st, i, tokens[i + 1], Len(tokens), max_len, min_len),
             i + 1, tokens, max_len, min_len)

generate_priors(tokens, max_exp_length, max_len, min_len) ==
    generate_priors_loop(
        [priors          |-> [r \in 0..(max_exp_length - 1) |->
                                 IF r = 0 THEN terminal_tokens ELSE {}],
         dangling        |-> 1,
         trig_descendant |-> FALSE,
         trig_dangling   |-> 0],
        0, tokens, max_len, min_len).priors

(***************************************************************************)
(* Names of the nodes tokens_to_DEAP builds for a token (lines 246-297).   *)
(***************************************************************************)
NodeNameOf(t) ==
    LET node == LibraryAt(t)
    IN  IF node.kind = "float" THEN "user_const"
        ELSE IF node.kind = "const" THEN "mutable_const"
        ELSE IF node.kind = "input" THEN "ARG0"
        ELSE node.name

NodeNames(tokens) == [k \in 1..Len(tokens) |-> NodeNameOf(tokens[k])]

(***************************************************************************)
(* Specification of sequential sampling under the priors: a sampler fills  *)
(* an action array of max_exp_length tokens, each one unmasked in the row  *)
(* of its position, stops when the expression is complete or the array is  *)
(* full, and the sequence is completed.                                    *)
(***************************************************************************)
\* The action array: the tokens chosen so far, zero elsewhere.
ActionArray(chosen, size) == chosen \o Repeat(0, size - Len(chosen))

\* The masked tokens of the row of the next position.
NextRow(chosen, cfg) ==
    generate_priors(ActionArray(chosen, MaxExpLength), MaxExpLength,
                    cfg.max_len, cfg.min_len)[Len(chosen)]

PriorCfgs ==
    {[max_len |-> 3, min_len |-> 2, max_depth |-> md] : md \in {3, 17}}
        \cup {[max_len |-> 5, min_len |-> 3, max_depth |-> md] : md \in {3, 17}}

ValidatorIdle ==
    /\ INVERSE_TOKENS = LoadedInverseTokens
    /\ import_pc = "ready"
    /\ names = <<>>
    /\ called = "none"
    /\ returned = "none"

InitPrior ==
    /\ ValidatorIdle
    /\ sampled = <<>>
    /\ prior_cfg \in PriorCfgs
    /\ sample_pc = "sampling"
    /\ finished = "none"
    /\ CodecIdle
    /\ WrapperIdle

Sample ==
    /\ sample_pc = "sampling"
    /\ Len(sampled) < MaxExpLength
    /\ Dangling(sampled, Len(sampled)) > 0
    /\ \E t \in TokenIds \ NextRow(sampled, prior_cfg) :
          sampled' = Append(sampled, t)
    /\ UNCHANGED <<wrapperVars, importVars, validatorVars, prior_cfg, sample_pc, finished, codecVars>>

Finish ==
    /\ sample_pc = "sampling"
    /\ \/ Dangling(sampled, Len(sampled)) = 0
       \/ Len(sampled) = MaxExpLength
    /\ finished' = complete(sampled, MaxExpLength)
    /\ sample_pc' = "done"
    /\ UNCHANGED <<wrapperVars, importVars, validatorVars, sampled, prior_cfg, codecVars>>

NextPrior == Sample \/ Finish

SpecPrior == InitPrior /\ [][NextPrior]_vars

\* The limits the validator is built with for the run.
LimitsOf(cfg) ==
    [max_length |-> cfg.max_len, min_length |-> cfg.min_len, max_depth |-> cfg.max_depth]

\* C1: a sequence sampled token by token from unmasked tokens only, once
\* completed, passes the validator: length within [min_len, max_len], height at
\* most max_depth, check_inv False, check_trig False.
C1_PriorImpliesValid ==
    sample_pc = "done" =>
        constraint(NodeNames(finished.sequence), LimitsOf(prior_cfg), INVERSE_TOKENS) = "kept"

\* The position of the last sampled token, counted from 0 as the loop does.
LastIdx == Len(sampled) - 1

\* The sampler is about to choose the token of position LastIdx + 1.
Choosing ==
    /\ sample_pc = "sampling"
    /\ Len(sampled) >= 1
    /\ Len(sampled) < MaxExpLength

\* C12: past the midpoint of max_len, the row of the next position masks the
\* binary tokens when dangling >= remaining - 1 and the unary tokens when
\* dangling = remaining, with remaining = max_len - (i + 1); and no sequence
\* sampled from unmasked tokens has an expression longer than max_len.
C12_LateLengthMasking ==
    /\ (Choosing /\ (LastIdx + 2) >= prior_cfg.max_len \div 2) =>
          LET dangling  == Dangling(sampled, Len(sampled))
              remaining == prior_cfg.max_len - (LastIdx + 1)
          IN  /\ dangling >= remaining - 1 =>
                    binary_tokens \subseteq NextRow(sampled, prior_cfg)
              /\ dangling = remaining =>
                    unary_tokens \subseteq NextRow(sampled, prior_cfg)
    /\ sample_pc = "done" => finished.length <= prior_cfg.max_len

\* C14: row 0 masks every terminal token; the row of a position i + 1 masks
\* every terminal token when dangling = 1 and i + 2 < min_len; and no sequence
\* sampled from unmasked tokens completes with fewer than min_len tokens, or
\* as a single terminal.
C14_MinLengthMasking ==
    /\ (sample_pc = "sampling" /\ Len(sampled) = 0) =>
          terminal_tokens \subseteq NextRow(sampled, prior_cfg)
    /\ (Choosing /\ Dangling(sampled, Len(sampled)) = 1
                 /\ (LastIdx + 2) < prior_cfg.min_len) =>
          terminal_tokens \subseteq NextRow(sampled, prior_cfg)
    /\ sample_pc = "done" =>
          /\ finished.length >= prior_cfg.min_len
          /\ finished.length > 1

\* min_len = 3 and [sin] sampled: a terminal would close the expression with
\* two tokens; the run then finishes with at least three.
C14_Witness ==
    \/ /\ Choosing
       /\ prior_cfg.min_len = 3
       /\ sampled = <<2>>
       /\ terminal_tokens \subseteq NextRow(sampled, prior_cfg)
    \/ /\ sample_pc = "done"
       /\ prior_cfg.min_len = 3
       /\ finished.length = 3
       /\ sampled[1] = 2

(***************************************************************************)
(* Specification of the trig handling of generate_priors and check_trig    *)
(* on one token sequence: any sequence, complete or not, nested or not.    *)
(***************************************************************************)
\* The token sequences drawn as inputs: every non-empty one up to MaxRaw tokens.
RawSeqs == SeqsUpTo(TokenIds, MaxRaw) \ {<<>>}

InitTrig ==
    /\ INVERSE_TOKENS = LoadedInverseTokens
    /\ import_pc = "ready"
    /\ sampled \in RawSeqs
    /\ names = NodeNames(sampled)
    /\ prior_cfg \in PriorCfgs
    /\ sample_pc = "given"
    /\ finished = "none"
    /\ called = "none"
    /\ returned = "none"
    /\ CodecIdle
    /\ WrapperIdle

\* generate_priors(tokens, max_exp_length, expr_length, max_const, max_len, min_len)
\* with one row for each position of the sequence.
Call_generate_priors ==
    /\ sample_pc = "given"
    /\ called' = "generate_priors"
    /\ returned' = generate_priors(sampled, Len(sampled),
                                   prior_cfg.max_len, prior_cfg.min_len)
    /\ UNCHANGED <<wrapperVars, importVars, names, priorVars, codecVars>>

NextTrig == Call_generate_priors \/ Call_check_trig

SpecTrig == InitTrig /\ [][NextTrig]_vars

\* Some trig token sits at a position j >= 1 whose row masks the trig tokens.
TrigTokenAtMaskedRow(tokens, priors) ==
    \E j \in 1..(Len(tokens) - 1) :
        /\ tokens[j + 1] \in trig_tokens
        /\ trig_tokens \subseteq priors[j]

\* C13: check_trig returns True on the names of a token sequence exactly when
\* some trig token of the sequence sits at a position j >= 1 whose row j of
\* generate_priors masks the trig tokens.
C13_TrigHandlingAgrees ==
    called = "generate_priors" =>
        (check_trig(names) <=> TrigTokenAtMaskedRow(sampled, returned))

\* [sin, log, sin, x1]: the second sin is beneath the first; its row masks sin.
C13_Witness ==
    /\ called = "generate_priors"
    /\ sampled = <<2, 3, 2, 0>>
    /\ check_trig(names)
    /\ TrigTokenAtMaskedRow(sampled, returned)

(***************************************************************************)
(* DEAP nodes.  A node of a tree is a reference to an object: ref = "pset" *)
(* is the one shared object primitive_set.mapping[name], whose .value is   *)
(* pset[name]; ref = "own" is a gp.Terminal made for that position, which  *)
(* carries its own value.                                                  *)
(***************************************************************************)
One == Float(1, FALSE)

NoValue == Float(0, FALSE)

ConstNames == {"user_const", "mutable_const"}

\* pset.addTerminal(1.0, name="mutable_const"); pset.addTerminal(1.0, name="user_const")
InitialPset == [mutable_const |-> One, user_const |-> One]

SharedNode(name, arity) == [name |-> name, arity |-> arity, ref |-> "pset", value |-> NoValue]

\* gp.Terminal(const, False, object) as constructed: .name is str(const)
OwnMutableConst_Unnamed(const) ==
    [name |-> "str(const)", arity |-> 0, ref |-> "own", value |-> const]

\* gp.Terminal(const, False, object) with .name set to "mutable_const"
OwnMutableConst(const) ==
    [name |-> "mutable_const", arity |-> 0, ref |-> "own", value |-> const]

\* node.value of a constant node (NoValue for the other nodes)
NodeValue(node, ps) ==
    IF node.name \notin ConstNames THEN NoValue
    ELSE IF node.ref = "pset" THEN ps[node.name]
    ELSE node.value

\* What a tree is, node for node: name, arity and the value each node holds.
TreeView(ind, ps) ==
    [k \in 1..Len(ind) |->
        [name |-> ind[k].name, arity |-> ind[k].arity, value |-> NodeValue(ind[k], ps)]]

\* The renamed arguments: mapping["x<n+1>"] is the terminal named "ARG<n>".
ArgNames == <<"ARG0">>

\* int(t.name[3:])
ArgIndex(name) == CHOOSE n \in 0..(Len(ArgNames) - 1) : ArgNames[n + 1] = name

(***************************************************************************)
(* tokens_to_DEAP                                                          *)
(***************************************************************************)
\* The body of the loop for one token: the node appended, and the pset after it.
DEAP_node_of(t, ps) ==
    LET node == LibraryAt(t)
    IN  IF node.kind = "float"
        THEN [p |-> SharedNode("user_const", 0), pset |-> [ps EXCEPT !.user_const = node.value]]
        ELSE IF node.kind = "const"
        THEN [p |-> SharedNode("mutable_const", 0), pset |-> [ps EXCEPT !.mutable_const = One]]
        ELSE IF node.kind = "input"
        THEN [p |-> SharedNode(ArgNames[node.value + 1], 0), pset |-> ps]
        ELSE [p |-> SharedNode(node.name, node.arity), pset |-> ps]

RECURSIVE tokens_to_DEAP_loop(_, _, _, _)
tokens_to_DEAP_loop(tokens, k, plist, ps) ==
    IF k > Len(tokens) THEN [individual |-> plist, pset |-> ps]
    ELSE LET step == DEAP_node_of(tokens[k], ps)
         IN  tokens_to_DEAP_loop(tokens, k + 1, Append(plist, step.p), step.pset)

tokens_to_DEAP(tokens, ps) == tokens_to_DEAP_loop(_finish_tokens(tokens), 1, <<>>, ps)

(***************************************************************************)
(* DEAP_to_tokens                                                          *)
(***************************************************************************)
\* A float stored into an int32 array: the fraction is dropped.
FloatToInt32(v) == v.whole

\* Program.library.names.index(name)
NamesIndex(name) == SetMin({t \in TokenIds : LibraryAt(t).name = name})

\* The token stored for node t (lines 179-190).  The source compares the names
\* with `is`; both sides are the same interned literal, so it decides as ==.
TokenOfNode(t, ps) ==
    IF t.arity = 0
    THEN IF t.name = "user_const" THEN FloatToInt32(NodeValue(t, ps))
         ELSE IF t.name = "mutable_const" THEN const_token
         ELSE ArgIndex(t.name)
    ELSE NamesIndex(t.name)

\* np.argmax(dangling == 0): the first index (from 0) with balance 0, and 0
\* when there is none.
ArgMaxZero(tokens) ==
    LET zeros == {k \in 1..Len(tokens) : Dangling(tokens, k) = 0}
    IN  IF zeros = {} THEN 0 ELSE SetMin(zeros) - 1

DEAP_to_tokens(ind, tokens_size, ps) ==
    LET l      == Min(Len(ind), tokens_size)
        tokens == [i \in 1..tokens_size |-> IF i <= l THEN TokenOfNode(ind[i], ps) ELSE 0]
    IN  IF \E i \in 1..tokens_size : tokens[i] \notin TokenIds
        THEN [raised |-> "IndexError", tokens |-> tokens, expr_length |-> 0]
        ELSE [raised |-> "no", tokens |-> tokens, expr_length |-> 1 + ArgMaxZero(tokens)]

(***************************************************************************)
(* GenericEvaluate: constant slots and their re-injection.                 *)
(***************************************************************************)
\* [i for i, node in enumerate(individual) if node.name == "mutable_const"]
RECURSIVE const_idxs_from(_, _)
const_idxs_from(ind, k) ==
    IF k > Len(ind) THEN <<>>
    ELSE IF ind[k].name = "mutable_const"
         THEN <<k - 1>> \o const_idxs_from(ind, k + 1)
         ELSE const_idxs_from(ind, k + 1)

const_idxs_of(ind) == const_idxs_from(ind, 1)

\* _set_const_individuals: zip stops at the shorter of the two lists.
RECURSIVE set_const_loop(_, _, _, _)
set_const_loop(idxs, consts, ind, k) ==
    IF k > Min(Len(idxs), Len(consts)) THEN ind
    ELSE set_const_loop(idxs, consts,
                        [ind EXCEPT ![idxs[k] + 1] = OwnMutableConst(consts[k])], k + 1)

_set_const_individuals(idxs, consts, ind) == set_const_loop(idxs, consts, ind, 1)

(***************************************************************************)
(* The objective obj of GenericEvaluate.__call__ (lines 450-470).          *)
(* env is what the environment does below obj: whether toolbox.compile     *)
(* and the compiled expression raise and whether the mean squared error is finite.     *)
(***************************************************************************)
\* The parameter of obj, and the names its body assigns: Python makes every
\* assigned name a local of obj, unbound until its assignment has run.
ObjParams == {"consts"}

ObjAssigned == {"individual", "f", "y_hat", "y", "res"}

\* The names read to evaluate the call of line 451, before anything is assigned.
ObjFirstReads == <<"self", "self", "const_idxs", "consts", "individual">>

\* A name read in obj is bound when it is a parameter or is not a local at all
\* (then it is a cell of the enclosing __call__: self, const_idxs).
ObjBoundAtEntry(name) == name \in ObjParams \/ name \notin ObjAssigned

\* def _set_const_individuals(self, const_idxs, consts, individual)
SetConstParams == <<"self", "const_idxs", "consts", "individual">>

\* self._set_const_individuals(self, const_idxs, consts, individual): the bound
\* receiver and the four arguments written at the call.
SetConstCallArgs == <<"self", "self", "const_idxs", "consts", "individual">>

Raised(what, env) == [kind |-> "raised", value |-> what, env |-> env]

Returned(value, env) == [kind |-> "returned", value |-> value, env |-> env]

obj(consts, env) ==
    IF \E k \in 1..Len(ObjFirstReads) : ~ObjBoundAtEntry(ObjFirstReads[k])
    THEN Raised("UnboundLocalError", env)
    ELSE IF Len(SetConstCallArgs) # Len(SetConstParams)
    THEN Raised("TypeError", env)
    ELSE IF env.compile = "raises"
    THEN Raised("compile", env)
    ELSE IF env.eval = "raises"
    THEN Returned("finfo.max", env)
    ELSE IF env.finite
    THEN Returned("res", env)
    ELSE Returned("finfo.max", env)

ObjEnvs == [compile : {"ok", "raises"}, eval : {"ok", "raises"}, finite : BOOLEAN]

(***************************************************************************)
(* Specification of the codec: one candidate goes from a raw token         *)
(* sequence through complete, tokens_to_DEAP, constant re-injection,       *)
(* DEAP_to_tokens and back.                                                *)
(***************************************************************************)
\* The longest tree a raw sequence completes to.
MaxTree == 2 * MaxRaw + 1

TokensSizes == {MaxRaw, MaxTree}

ConstValues == {One, Float(2, TRUE)}

\* All lists of n constant values.
ConstLists(n) == {c \in SeqsUpTo(ConstValues, n) : Len(c) = n}

InitCodec ==
    /\ ValidatorIdle
    /\ PriorIdle
    /\ raw \in RawSeqs
    /\ completed = "none"
    /\ recompleted = "none"
    /\ pset = InitialPset
    /\ individual = <<>>
    /\ original = <<>>
    /\ encoded = "none"
    /\ injected = <<>>
    /\ obj_result = "none"
    /\ codec_pc = "raw"
    /\ WrapperIdle

Complete ==
    /\ codec_pc = "raw"
    /\ \E L \in 1..MaxRaw :
          completed' = [result |-> complete(raw, L), max_length |-> L]
    /\ codec_pc' = "completed"
    /\ UNCHANGED <<wrapperVars, importVars, validatorVars, priorVars, injected, raw, recompleted, pset,
                   individual, original, encoded, obj_result>>

CompleteAgain ==
    /\ codec_pc = "completed"
    /\ recompleted' = complete(completed.result.sequence, completed.max_length)
    /\ codec_pc' = "recompleted"
    /\ UNCHANGED <<wrapperVars, importVars, validatorVars, priorVars, injected, raw, completed, pset,
                   individual, original, encoded, obj_result>>

Call_tokens_to_DEAP ==
    /\ codec_pc = "raw"
    /\ LET r == tokens_to_DEAP(raw, pset)
       IN  /\ individual' = r.individual
           /\ pset' = r.pset
    /\ codec_pc' = "tree"
    /\ UNCHANGED <<wrapperVars, importVars, validatorVars, priorVars, injected, raw, completed, recompleted,
                   original, encoded, obj_result>>

Call_set_const_individuals ==
    /\ codec_pc = "tree"
    /\ const_idxs_of(individual) # <<>>
    /\ \E consts \in ConstLists(Len(const_idxs_of(individual))) :
          /\ individual' = _set_const_individuals(const_idxs_of(individual), consts, individual)
          /\ injected' = consts
    /\ UNCHANGED <<wrapperVars, importVars, validatorVars, priorVars, raw, completed, recompleted,
                   pset, original, encoded, obj_result, codec_pc>>

Call_obj ==
    /\ codec_pc = "tree"
    /\ const_idxs_of(individual) # <<>>
    /\ \E consts \in ConstLists(Len(const_idxs_of(individual))), env \in ObjEnvs :
          obj_result' = obj(consts, env)
    /\ codec_pc' = "objective"
    /\ UNCHANGED <<wrapperVars, importVars, validatorVars, priorVars, injected, raw, completed, recompleted,
                   pset, individual, original, encoded>>

Call_DEAP_to_tokens ==
    /\ codec_pc = "tree"
    /\ \E tokens_size \in TokensSizes :
          encoded' = [result      |-> DEAP_to_tokens(individual, tokens_size, pset),
                      tokens_size |-> tokens_size]
    /\ original' = TreeView(individual, pset)
    /\ codec_pc' = "encoded"
    /\ UNCHANGED <<wrapperVars, importVars, validatorVars, priorVars, injected, raw, completed, recompleted,
                   pset, individual, obj_result>>

Decode ==
    /\ codec_pc = "encoded"
    /\ encoded.result.raised = "no"
    /\ LET r == tokens_to_DEAP(encoded.result.tokens, pset)
       IN  /\ individual' = r.individual
           /\ pset' = r.pset
    /\ codec_pc' = "decoded"
    /\ UNCHANGED <<wrapperVars, importVars, validatorVars, priorVars, injected, raw, completed, recompleted,
                   original, encoded, obj_result>>

NextCodec ==
    \/ Complete
    \/ CompleteAgain
    \/ Call_tokens_to_DEAP
    \/ Call_set_const_individuals
    \/ Call_obj
    \/ Call_DEAP_to_tokens
    \/ Decode

SpecCodec == InitCodec /\ [][NextCodec]_vars

(***************************************************************************)
(* Properties of the codec and of the objective.                           *)
(***************************************************************************)
\* The balance of a token sequence reaches 0 at position n and is positive before.
FirstZeroAt(tokens, n) ==
    /\ n \in 1..Len(tokens)
    /\ Dangling(tokens, n) = 0
    /\ \A k \in 1..(n - 1) : Dangling(tokens, k) > 0

\* C2: a well-formed tree encoded by DEAP_to_tokens (into an array that holds
\* all of it) and decoded by tokens_to_DEAP is the original tree node for node,
\* the value of every constant node included.
C2_RoundTrip ==
    (codec_pc = "decoded" /\ encoded.tokens_size >= Len(original)) =>
        TreeView(individual, pset) = original

\* C3: the expr_length DEAP_to_tokens returns is the position at which the
\* balance of the returned tokens first reaches 0, for every individual and
\* every tokens_size (truncated and zero-padded individuals included).
C3_ExprLengthIsFirstZero ==
    (codec_pc \in {"encoded", "decoded"} /\ encoded.result.raised = "no") =>
        FirstZeroAt(encoded.result.tokens, encoded.result.expr_length)

\* C4 as stated: complete always returns a complete sequence of length at most
\* max_length.
C4_CompleteWithinMaxLength ==
    codec_pc \in {"completed", "recompleted"} =>
        /\ FirstZeroAt(completed.result.sequence, completed.result.length)
        /\ completed.result.length <= completed.max_length

\* The first max_length tokens of the raw sequence.
CappedRaw(L) == SubSeq(raw, 1, Min(Len(raw), L))

ClosesWithin(L) == \E k \in 1..Len(CappedRaw(L)) : Dangling(CappedRaw(L), k) = 0

\* C4 amended: complete always returns a complete sequence, whose balance first
\* reaches 0 at the returned length, its last position.  The length is at most
\* max_length when the balance of the input reaches 0 within its first
\* max_length tokens; otherwise it is the number of tokens kept plus the number
\* of operand slots still open, which may exceed max_length
\* (complete([add, x1], 2) returns [add, x1, x1], length 3).
C4_CompleteClosesAndPads ==
    codec_pc \in {"completed", "recompleted"} =>
        LET L   == completed.max_length
            res == completed.result
        IN  /\ FirstZeroAt(res.sequence, res.length)
            /\ res.length = Len(res.sequence)
            /\ ClosesWithin(L) => res.length <= L
            /\ ~ClosesWithin(L) =>
                  /\ res.length = Len(CappedRaw(L)) + Dangling(CappedRaw(L), Len(CappedRaw(L)))
                  /\ SubSeq(res.sequence, 1, Len(CappedRaw(L))) = CappedRaw(L)
            /\ (raw = <<1, 0>> /\ L = 2) => res = [sequence |-> <<1, 0, 0>>, length |-> 3]

C4_Witness ==
    /\ codec_pc = "completed"
    /\ raw = <<1, 0>>
    /\ completed.max_length = 2
    /\ completed.result.length = 3

\* C5: complete applied to the sequence complete returned, with the same
\* max_length, returns the same sequence and the same length.
C5_CompleteIdempotent ==
    codec_pc = "recompleted" => recompleted = completed.result

\* A case in which the second call has to cut padding and pad again.
C5_Witness ==
    /\ codec_pc = "recompleted"
    /\ completed.result.length > completed.max_length
    /\ recompleted.length = completed.result.length

\* C7: obj never raises; it returns the largest float when evaluating the
\* expression fails or the error is not finite, and the error otherwise.
C7_ObjNeverRaises ==
    codec_pc = "objective" =>
        /\ obj_result.kind = "returned"
        /\ obj_result.value =
              (IF \/ obj_result.env.compile = "raises"
                  \/ obj_result.env.eval = "raises"
                  \/ ~obj_result.env.finite
               THEN "finfo.max" ELSE "res")


\* The tree tokens_to_DEAP built from the raw sequence, before any re-injection.
BuiltTree == tokens_to_DEAP(raw, InitialPset).individual

\* C15: after any number of re-injections with the slots extracted from the
\* tree, the k-th mutable-constant position holds consts[k] of the last one,
\* every other node and the length of the tree are those of the tree as built,
\* and the slots extracted again are the positions extracted at first.
C15_ReinjectionKeepsSlots ==
    (codec_pc = "tree" /\ injected # <<>>) =>
        LET idxs == const_idxs_of(BuiltTree)
        IN  /\ Len(individual) = Len(BuiltTree)
            /\ const_idxs_of(individual) = idxs
            /\ Len(injected) = Len(idxs)
            /\ \A k \in 1..Len(idxs) :
                  /\ individual[idxs[k] + 1].name = "mutable_const"
                  /\ NodeValue(individual[idxs[k] + 1], pset) = injected[k]
            /\ \A p \in 1..Len(individual) :
                  (\A k \in 1..Len(idxs) : idxs[k] + 1 # p) =>
                      /\ individual[p] = BuiltTree[p]
                      /\ TreeView(individual, pset)[p] = TreeView(BuiltTree, pset)[p]

\* [add, const, const] with 1.0 injected in the first slot and 2.5 in the second.
C15_Witness ==
    /\ codec_pc = "tree"
    /\ raw = <<1, 5, 5>>
    /\ injected = <<One, Float(2, TRUE)>>
    /\ NodeValue(individual[2], pset) = One
    /\ NodeValue(individual[3], pset) = Float(2, TRUE)

\* C17: in the tree built by tokens_to_DEAP every user_const node holds the
\* value of the float token at its own position.
C17_UserConstHoldsOwnValue ==
    codec_pc = "tree" =>
        LET tokens == _finish_tokens(raw)
        IN  \A k \in 1..Len(tokens) :
                LibraryAt(tokens[k]).kind = "float" =>
                    NodeValue(individual[k], pset) = LibraryAt(tokens[k]).value

(***************************************************************************)
(* checkConstraint's wrapper around a DEAP operator.  The operators        *)
(* (gp.mutUniform, gp.cxOnePoint) rewrite their arguments in place and     *)
(* return them; an individual is an object, so a reference to it sees the  *)
(* rewrite.                                                                *)
(***************************************************************************)
PopSize == 2          \* individuals of the population

\* max_length, min_length, max_depth the decorator is built with.
WrapperLimits == [max_length |-> 4, min_length |-> 2, max_depth |-> 2]

\* Trees an operator can leave in an argument: two that pass the chain and one
\* for each branch that rejects.
Offspring ==
    { <<"sin", "ARG0">>,
      <<"add", "ARG0", "ARG0">>,
      <<"ARG0">>,
      <<"add", "add", "ARG0", "ARG0", "ARG0">>,
      <<"log", "log", "log", "ARG0">>,
      <<"exp", "log", "ARG0">>,
      <<"sin", "sin", "ARG0">> }

\* keep_inds = [copy.deepcopy(ind) for ind in args], taken before func runs:
\* the copies hold what the arguments held at entry, whatever func does.
keep_inds_Aliased(at_entry, after_func) == after_func

keep_inds(at_entry, after_func) == at_entry

\* new_inds[i] after the loop: func's own i-th result when the chain keeps it,
\* else random.choice(keep_inds), the pick-th copy.
new_ind(i, produced, keep, pick, lim, inv) ==
    IF constraint(produced[i], lim, inv) = "kept"
    THEN [from |-> "func", k |-> i, tree |-> produced[i]]
    ELSE [from |-> "keep", k |-> pick, tree |-> keep[pick]]

\* for i, ind in enumerate(new_inds): ...
RECURSIVE wrapper_loop(_, _, _, _, _, _)
wrapper_loop(i, produced, keep, picks, lim, inv) ==
    IF i > Len(produced) THEN <<>>
    ELSE <<new_ind(i, produced, keep, picks[i], lim, inv)>>
         \o wrapper_loop(i + 1, produced, keep, picks, lim, inv)

\* The wrapper called with individuals holding at_entry, func leaving the
\* trees produced in them: what it returns, entry by entry.
wrapper(at_entry, produced, picks, lim, inv) ==
    [before   |-> at_entry,
     produced |-> produced,
     returned |-> wrapper_loop(1, produced, keep_inds(at_entry, produced), picks, lim, inv)]

\* The object a returned entry refers to: an argument of the call (rewritten
\* by func) or one of the copies made at entry.
RefOf(entry, args) ==
    IF entry.from = "func" THEN <<"obj", args[entry.k]>> ELSE <<"keep", entry.k>>

\* Position of x in the sequence s, 0 when it is not there.
PositionIn(s, x) ==
    IF \E k \in 1..Len(s) : s[k] = x THEN CHOOSE k \in 1..Len(s) : s[k] = x ELSE 0

\* The loop stores the returned individuals in the slots the arguments came
\* from; references are renumbered by the first slot that holds the object.
StoreBack(slots, call) ==
    \E args \in {[k \in 1..Len(slots) |-> population[slots[k]]]} :
    \E ref \in {[p \in 1..PopSize |->
                   IF PositionIn(slots, p) # 0
                   THEN RefOf(call.returned[PositionIn(slots, p)], args)
                   ELSE <<"obj", population[p]>>]} :
    \E first \in {[p \in 1..PopSize |-> CHOOSE q \in 1..p :
                      ref[q] = ref[p] /\ \A q2 \in 1..(q - 1) : ref[q2] # ref[p]]} :
        /\ population' = first
        /\ heap' = [p \in 1..PopSize |->
                      IF first[p] # p THEN <<>>
                      ELSE IF PositionIn(slots, p) # 0
                      THEN call.returned[PositionIn(slots, p)].tree
                      ELSE IF PositionIn(args, population[p]) # 0
                      THEN call.produced[PositionIn(args, population[p])]
                      ELSE heap[population[p]]]

PopulationIdx == 1..PopSize

\* Every individual of the population passes the wrapper's chain.
PopulationValid ==
    \A p \in 1..Len(population) :
        constraint(heap[population[p]], WrapperLimits, INVERSE_TOKENS) = "kept"

\* A population of distinct individuals, each passing the chain.
InitPopulation ==
    /\ ValidatorIdle
    /\ PriorIdle
    /\ CodecIdle
    /\ population = [p \in 1..PopSize |-> p]
    /\ heap \in [1..PopSize -> Offspring]
    /\ PopulationValid
    /\ wrapped = [op |-> "none"]

\* offspring[i], = toolbox.mutate(offspring[i])
Mutate ==
    \E p \in PopulationIdx : \E t \in Offspring :
    \E call \in {wrapper(<<heap[population[p]]>>, <<t>>, <<1>>,
                         WrapperLimits, INVERSE_TOKENS)} :
        /\ wrapped' = [op |-> "mutate"] @@ call
        /\ StoreBack(<<p>>, call)
        /\ UNCHANGED <<importVars, validatorVars, priorVars, codecVars>>

\* offspring[i - 1], offspring[i] = toolbox.mate(offspring[i - 1], offspring[i])
Mate ==
    \E p \in PopulationIdx : \E q \in {x \in PopulationIdx : p < x} :
    \E t1 \in Offspring :
    \E t2 \in (IF population[p] = population[q] THEN {t1} ELSE Offspring) :
    \E c1 \in 1..2 : \E c2 \in 1..2 :
        /\ \E call \in {wrapper(<<heap[population[p]], heap[population[q]]>>, <<t1, t2>>,
                                <<c1, c2>>, WrapperLimits, INVERSE_TOKENS)} :
              /\ wrapped' = [op |-> "mate"] @@ call
              /\ StoreBack(<<p, q>>, call)
        /\ UNCHANGED <<importVars, validatorVars, priorVars, codecVars>>

NextPopulation == Mutate \/ Mate

SpecPopulation == InitPopulation /\ [][NextPopulation]_vars

(***************************************************************************)
(* Specification of one wrapped call in a run, on any individuals: the     *)
(* operator is handed one individual (mutate) or two (mate).               *)
(***************************************************************************)
InitWrapper ==
    /\ ValidatorIdle
    /\ PriorIdle
    /\ CodecIdle
    /\ WrapperIdle

\* toolbox.mutate(individual)
Wrapped_mutate ==
    \E a \in Offspring : \E t \in Offspring :
        /\ wrapped.op = "none"
        /\ wrapped' = [op |-> "mutate"]
                      @@ wrapper(<<a>>, <<t>>, <<1>>, WrapperLimits, INVERSE_TOKENS)
        /\ UNCHANGED <<importVars, validatorVars, priorVars, codecVars, population, heap>>

\* toolbox.mate(ind1, ind2)
Wrapped_mate ==
    \E a1 \in Offspring : \E a2 \in Offspring :
    \E t1 \in Offspring : \E t2 \in Offspring :
    \E c1 \in 1..2 : \E c2 \in 1..2 :
        /\ wrapped.op = "none"
        /\ wrapped' = [op |-> "mate"]
                      @@ wrapper(<<a1, a2>>, <<t1, t2>>, <<c1, c2>>,
                                 WrapperLimits, INVERSE_TOKENS)
        /\ UNCHANGED <<importVars, validatorVars, priorVars, codecVars, population, heap>>

NextWrapper == Wrapped_mutate \/ Wrapped_mate

SpecWrapper == InitWrapper /\ [][NextWrapper]_vars

(***************************************************************************)
(* Properties of the wrapper.                                              *)
(***************************************************************************)
\* The individual satisfies the five constraints, stated without the chain.
SatisfiesConstraints(lim, ns) ==
    /\ Admits(lim, ns)
    /\ ~ \E i \in 1..(Len(ns) - 1) : IsInverseOf(INVERSE_TOKENS, ns[i], ns[i + 1])
    /\ ~ NestedTrig(ns)

\* C11: every entry the wrapper returns is the operator's own result when that
\* result satisfies the five constraints, and otherwise a copy of an input
\* individual holding what the input held before the operator ran; the wrapper
\* returns as many entries as the operator produced.
C11_WrapperKeepsOrRestores ==
    wrapped.op # "none" =>
        /\ Len(wrapped.returned) = Len(wrapped.produced)
        /\ \A k \in 1..Len(wrapped.returned) :
              LET r == wrapped.returned[k]
              IN  IF SatisfiesConstraints(WrapperLimits, wrapped.produced[k])
                  THEN r.from = "func" /\ r.k = k /\ r.tree = wrapped.produced[k]
                  ELSE /\ r.from = "keep"
                       /\ r.k \in 1..Len(wrapped.before)
                       /\ r.tree = wrapped.before[r.k]

\* A mate call whose first child was rejected and replaced by the copy of the
\* second parent, and whose second child was kept.
C11_Witness ==
    /\ wrapped.op # "none"
    /\ wrapped.op = "mate"
    /\ ~ SatisfiesConstraints(WrapperLimits, wrapped.produced[1])
    /\ wrapped.returned[1].from = "keep"
    /\ wrapped.returned[1].k = 2
    /\ wrapped.returned[1].tree # wrapped.produced[2]
    /\ wrapped.returned[2].from = "func"

\* C16: every individual of the population satisfies the five constraints
\* after any sequence of wrapped mutate and mate calls on a population that
\* satisfied them at the start.
C16_PopulationStaysValid ==
    \A p \in 1..Len(population) :
        SatisfiesConstraints(WrapperLimits, heap[population[p]])

====
